---- MODULE Spec2Model ----
(***************************************************************************)
(* A model of the handler registry, the handler-instance cache and the     *)
(* resource cache of filestore.fs.FileStoreRO / FileStore, and of the      *)
(* module-level registry of filestore.retrieve.                            *)
(***************************************************************************)
EXTENDS Naturals, Integers, Sequences, FiniteSets, TLC

\* ---------------------------------------------------------------- bounds
\* Spec: the deepest nesting of handler_context, the number of resource ids
\* retrieved and inserted, the number of handler instances constructed
MaxDepth == 1
MaxRes == 1
MaxInst == 2
\* SpecNest: the same three, for the runs that nest contexts
NestDepth == 2
NestRes == 1
NestInst == 2
\* SpecWide: the same three, for the runs with several resources
WideDepth == 1
WideRes == 2
WideInst == 2
\* SpecRetrieve: the deepest nesting of retrieve.handler_context
ModDepth == 2
\* SpecLRU: the max_size of the two LRUs of get_spec_handler (boltons gives an
\* LRU() 128; the model scales it), the number of resource ids retrieved and
\* the number of store reads and of constructor calls counted per id
LruMaxSize == 2
LruRes == 3
LruCalls == 2
\* SpecData: the number of arrays saved, the deepest nesting of
\* retrieve.handler_context
DataRes == 1
DataDepth == 1
\* SpecDatum: the number of resource ids, the number of datum ids and the
\* longest list bulk_insert_datum is given
DatumRes == 1
MaxDatumId == 2
MaxBulk == 2
\* SpecFrames: the most frames the data holds, the largest frame_per_point
\* and the largest point_number
MaxFrames == 4
MaxFpp == 2
MaxPoint == 1
\* SpecMaps: the largest extent of the MAPS dataset along energy, x and y
\* SpecConc: the resources and the depth of handler_context
ConcRes == 1
ConcDepth == 1
\* SpecReconf: the resources, the datums and the handler instances
ReconfRes == 1
ReconfInst == 2
\* SpecLife: the depth of handler_context, the resources and the instances
LifeDepth == 1
LifeRes == 1
LifeInst == 2
\* the files a handler opens
MaxOpen == 2
MaxE == 2
MaxX == 2
MaxY == 2

\* ---------------------------------------------------------------- values
Specs == {"s1", "s2"}

\* Handler constructors.  A1 and A2 are two distinct classes whose __name__
\* is the same; B is a class with another __name__.
Handlers == {"A1", "A2", "B"}

\* the classes of the runs that have no need of two classes of one name
NestHandlers == {"A1", "B"}

\* the absence of a binding (dict miss / pop default None)
NoHandler == "none"

__name__(h) == IF h \in {"A1", "A2"} THEN "A" ELSE h

RIds == 1..WideRes

\* a dict spec -> handler; NoHandler marks a key the dict does not hold
Layers == [Specs -> Handlers \cup {NoHandler}]

EmptyLayer == [s \in Specs |-> NoHandler]

\* the value find_one returns for an id with no document, and the marker of
\* a key the LRU does not hold
None == "None"
Miss == "miss"
Absent == "absent"

VARIABLES
    handler_reg,      \* FileStoreRO.handler_reg: the chain maps[0], maps[1], ...
    _handler_cache,   \* FileStoreRO._handler_cache: (rid, name) -> instance
    _resource_cache,  \* FileStoreRO._resource_cache: rid -> document | None
    resource_col,     \* the 'resource' collection: rid -> spec of the document
    nextInst,         \* identity of the next handler instance constructed
    stash,            \* handler_context frames: the chain each saved at entry
    _h_registry,      \* retrieve._h_registry
    mod_ctx,          \* retrieve.handler_context frames
    gone,             \* <<rid, id>>: instances deregister_handler calls evict
    last,             \* the last call: arguments, outcome, state before it
    _resource_lru,    \* the ids _resource_cache holds, the last used first
    _handler_lru,     \* the ids _handler_cache holds instances for, likewise
    reads,            \* id -> the find_one calls made for it
    built,            \* id -> the constructor calls made for it
    files,            \* resource id -> what the file at its resource_path holds
    datum_col,        \* the 'datum' collection: its documents, as inserted
    out,              \* what the last retrieval gave its caller
    datum_index,      \* whether the collection has the unique datum_id index
    __datum_col,      \* FileStoreRO.__datum_col: None, or the collection
    h_inst,           \* a handler of handlers.py: its class and attributes
    disk,             \* the number of frames its file or file sequence holds
    dset,             \* the MAPS dataset of its file, ordered [energy, x, y]
    got,              \* what the last call of the handler gave
    conc,             \* two calls in flight: their positions and locals
    closed,           \* the instances close() was called on
    config,           \* FileStoreRO.config: the store it names
    stores,           \* the collections of the stores not connected to
    _datum_cache      \* FileStoreRO._datum_cache: the datum documents held

\* the recency lists of the two LRUs, and the calls counted
lru_vars == <<_resource_lru, _handler_lru, reads, built>>

\* the documents and files beyond the resource collection
store_vars == <<files, datum_col, datum_index, __datum_col>>

\* a handler called directly, and the data under it
handler_vars == <<h_inst, disk, dset, got>>

\* calls taken statement by statement, and the handlers closed
more_vars == <<conc, closed, config, stores, _datum_cache>>

\* the variables the registry calls leave alone
rest == <<lru_vars, store_vars, out, handler_vars, more_vars>>

vars == <<handler_reg, _handler_cache, _resource_cache, resource_col,
          nextInst, stash, _h_registry, mod_ctx, gone, last, rest>>

\* ---------------------------------------------------------------- _ChainMap
\* _ChainMap.__getitem__: the first map of the chain that holds k
RECURSIVE ChainGet(_, _)
ChainGet(maps, k) ==
    IF maps = <<>> THEN NoHandler
    ELSE IF Head(maps)[k] # NoHandler THEN Head(maps)[k]
    ELSE ChainGet(Tail(maps), k)

\* the handler a spec resolves to (NoHandler: the lookup raises KeyError)
resolve(key) == ChainGet(handler_reg, key)

\* (a slip: k in self.handler_reg.maps[0])
ChainContainsTop(maps, k) == Head(maps)[k] # NoHandler

\* _ChainMap.__contains__
ChainContains(maps, k) == \E i \in 1..Len(maps) : maps[i][k] # NoHandler

\* (a slip: the write goes to the last map of the chain)
ChainSetLast(maps, k, v) ==
    [i \in 1..Len(maps) |-> IF i = Len(maps) THEN [maps[i] EXCEPT ![k] = v]
                            ELSE maps[i]]

\* _ChainMap.__setitem__: writes maps[0]
ChainSet(maps, k, v) == <<[Head(maps) EXCEPT ![k] = v]>> \o Tail(maps)

\* (a slip: k is removed from every map of the chain)
ChainPopEvery(maps, k) ==
    [i \in 1..Len(maps) |-> [maps[i] EXCEPT ![k] = NoHandler]]

\* _ChainMap.pop(k, None): removes k from maps[0] only
ChainPop(maps, k) == <<[Head(maps) EXCEPT ![k] = NoHandler]>> \o Tail(maps)

\* the value pop(k, None) returns
ChainPopped(maps, k) == Head(maps)[k]

\* (a slip: the new map is put behind the chain)
new_childBehind(maps, m) == maps \o <<m>>

\* _ChainMap.new_child(m)
new_child(maps, m) == <<m>> \o maps

\* ---------------------------------------------------------------- caches
\* (a slip: the loop stops at the first key it deletes)
EvictFirst(cache, names) ==
    LET hit == {q \in DOMAIN cache : q[2] \in names}
        first == CHOOSE q \in hit : \A r \in hit :
                     q[1] < r[1] \/ (q[1] = r[1] /\ (q[2] = r[2] \/ q[2] = "A"))
    IN  IF hit = {} THEN cache
        ELSE [k \in DOMAIN cache \ {first} |-> cache[k]]

\* the eviction loop: del every key k with k[1] == name
Evict(cache, names) ==
    [k \in {q \in DOMAIN cache : q[2] \notin names} |-> cache[k]]

\* the instances a cache holds
InstIds(cache) == {cache[k].id : k \in DOMAIN cache}

\* (a slip: the instance constructed is returned and not stored)
CachePutNot(cache, key, v) == cache

\* h_cache[key] = ret
CachePut(cache, key, v) ==
    [k \in DOMAIN cache \cup {key} |-> IF k = key THEN v ELSE cache[k]]

\* ---------------------------------------------------------------- calls
\* the record of a call: the operation, its spec argument, how it ended
\* (exc = "none" when it returned), the instance it returned and the number
\* of entries it removed from the handler-instance cache
Call(op, key, exc, ret) ==
    [op |-> op, key |-> key, exc |-> exc, ret |-> ret,
     evicted |-> Cardinality(DOMAIN _handler_cache)
                 - Cardinality(DOMAIN _handler_cache \cap DOMAIN _handler_cache')]

\* (a slip: the key is unbound in the parents too)
deregister_regParents(maps, key) == ChainPopEvery(maps, key)

\* FileStoreRO.deregister_handler, as a function of the state it changes
deregister_reg(maps, key) == ChainPop(maps, key)

\* (a slip: the loop compares k[0], the resource id, with the name)
deregister_cacheKey0(maps, cache, key) == cache

deregister_cache(maps, cache, key) ==
    LET handler == ChainPopped(maps, key)
    IN  IF handler # NoHandler THEN Evict(cache, {__name__(handler)})
        ELSE cache

\* What a deregister_handler(key) call finds cached for the resources of
\* spec key: every such instance is noted as seen by the call,
Seen(cache, key) ==
    [k \in DOMAIN cache |->
        IF resource_col[k[1]] = key THEN [cache[k] EXCEPT !.seen = TRUE]
        ELSE cache[k]]

\* and those cached under the name of the handler that maps[0] binds to key
\* are the ones the call is to evict.
CachedForTop(maps, cache, key) ==
    {<<k[1], cache[k].id>> : k \in {q \in DOMAIN cache :
        /\ resource_col[q[1]] = key
        /\ Head(maps)[key] # NoHandler
        /\ q[2] = __name__(Head(maps)[key])}}

deregister_handler(key) ==
    /\ handler_reg' = deregister_reg(handler_reg, key)
    /\ _handler_cache' = deregister_cache(handler_reg,
                              Seen(_handler_cache, key), key)
    /\ gone' = gone \cup CachedForTop(handler_reg, _handler_cache, key)
    /\ UNCHANGED <<_resource_cache, resource_col, nextInst, stash,
                   _h_registry, mod_ctx, rest>>
    /\ last' = Call("deregister", key, "none", 0)

\* FileStoreRO.register_handler
register_handler(key, handler, overwrite) ==
    IF (~overwrite) /\ ChainContains(handler_reg, key)
    THEN /\ UNCHANGED <<handler_reg, _handler_cache, _resource_cache,
                        resource_col, nextInst, stash, _h_registry, mod_ctx, rest,
                        gone>>
         /\ last' = Call("register", key,
                         IF ChainGet(handler_reg, key) = handler
                         THEN "none" ELSE "DuplicateHandler", 0)
    ELSE /\ handler_reg' = ChainSet(deregister_reg(handler_reg, key), key, handler)
         /\ _handler_cache' = deregister_cache(handler_reg, _handler_cache, key)
         /\ UNCHANGED <<_resource_cache, resource_col, nextInst, stash,
                        _h_registry, mod_ctx, rest, gone>>
         /\ last' = Call("register", key, "none", 0)

\* FileStoreRO.handler_context, up to the yield
handler_context_enter(temp_handlers) ==
    /\ stash' = <<handler_reg>> \o stash
    /\ handler_reg' = new_child(handler_reg, temp_handlers)
    /\ UNCHANGED <<_handler_cache, _resource_cache, resource_col, nextInst,
                   _h_registry, mod_ctx, rest, gone>>
    /\ last' = Call("enter", "-", "none", 0)

\* (a slip: the exit finds no handler in the popped map)
ValueNamesNone(m) == {}

\* the names of the handlers a dict holds
ValueNames(m) == {__name__(m[s]) : s \in {t \in Specs : m[t] # NoHandler}}

\* FileStoreRO.handler_context, the finally block.  The body left by return
\* or by an exception: both run it.  stash and the child chain share every
\* map but maps[0], so the chain restored is the rest of the child chain.
handler_context_exit(raised) ==
    /\ stash # <<>>
    /\ LET popped_reg == Head(handler_reg)
       IN  /\ handler_reg' = Tail(handler_reg)
           /\ _handler_cache' = Evict(_handler_cache, ValueNames(popped_reg))
    /\ stash' = Tail(stash)
    /\ UNCHANGED <<_resource_cache, resource_col, nextInst, _h_registry,
                   mod_ctx, rest, gone>>
    /\ last' = Call("exit", "-", IF raised THEN "body" ELSE "none", 0)

\* the position, counted from the root map, of the map that supplies k
ChainLevel(maps, k) ==
    LET i == CHOOSE j \in 1..Len(maps) :
                 /\ maps[j][k] # NoHandler
                 /\ \A l \in 1..(j - 1) : maps[l][k] = NoHandler
    IN  Len(maps) - i + 1

\* FileStoreRO._r_on_miss: find_one returns the document or None
_r_on_miss(k) == IF resource_col[k] = Absent THEN None ELSE resource_col[k]

\* boltons LRU.__getitem__ with on_miss: a miss stores what on_miss returns
LRUGet(cache, k) == IF cache[k] = Miss THEN _r_on_miss(k) ELSE cache[k]

\* FileStoreRO.get_spec_handler, on the state it reads and writes.
\* ctor_raises: the handler constructor fails.
get_spec_handler_do(rid, ctor_raises) ==
    LET resource == LRUGet(_resource_cache, rid)
        handler == ChainGet(handler_reg, resource)
        key == <<rid, __name__(handler)>>
        ret == [id |-> nextInst, ctor |-> handler,
                layer |-> ChainLevel(handler_reg, resource), seen |-> FALSE]
        Ends(exc, r) == last' = Call("get", "-", exc, r)
    IN  /\ _resource_cache' = [_resource_cache EXCEPT ![rid] = resource]
        /\ UNCHANGED <<handler_reg, resource_col, stash, _h_registry, mod_ctx,
                       gone>>
        /\ IF resource = None
           THEN /\ UNCHANGED <<_handler_cache, nextInst>>
                /\ Ends("TypeError", 0)
           ELSE IF ~ChainContains(handler_reg, resource)
           THEN /\ UNCHANGED <<_handler_cache, nextInst>>
                /\ Ends("KeyError", 0)
           ELSE IF key \in DOMAIN _handler_cache
           THEN /\ UNCHANGED <<_handler_cache, nextInst>>
                /\ Ends("none", _handler_cache[key].id)
           ELSE IF ctor_raises
           THEN /\ UNCHANGED <<_handler_cache, nextInst>>
                /\ Ends("handler", 0)
           ELSE /\ _handler_cache' = CachePut(_handler_cache, key, ret)
                /\ nextInst' = nextInst + 1
                /\ Ends("none", ret.id)

\* FileStoreRO.get_spec_handler
get_spec_handler(rid, ctor_raises) ==
    get_spec_handler_do(rid, ctor_raises) /\ UNCHANGED rest

\* HandlerBase.close or HandlerBase.__exit__, called by a client on an
\* instance it was returned
handler_close(id) ==
    /\ id < nextInst
    /\ closed' = closed \cup {id}
    /\ UNCHANGED <<conc, config, stores, _datum_cache, lru_vars, store_vars,
                   out, handler_vars>>
    /\ UNCHANGED <<handler_reg, _handler_cache, _resource_cache, resource_col,
                   nextInst, stash, _h_registry, mod_ctx, gone>>
    /\ last' = Call("close", "-", "none", id)

\* core.insert_resource: validates resource_kwargs against the spec's schema
\* (valid: they pass) and persists a new document.  It is not handed the
\* registry.
_insert_resource(col, spec, rid, valid) ==
    IF valid THEN [col EXCEPT ![rid] = spec] ELSE col

\* (a slip: the insertion looks the spec up in the registry first)
insert_resourceRegistered(spec, rid, valid) ==
    /\ resource_col[rid] = Absent
    /\ _resource_cache[rid] = Miss
    /\ resource_col' = IF ChainContains(handler_reg, spec)
                       THEN _insert_resource(resource_col, spec, rid, valid)
                       ELSE resource_col
    /\ UNCHANGED <<handler_reg, _handler_cache, _resource_cache, nextInst,
                   stash, _h_registry, mod_ctx, rest, gone>>
    /\ last' = Call("insert", spec,
                    IF ~ChainContains(handler_reg, spec) THEN "KeyError"
                    ELSE IF valid THEN "none" ELSE "ValidationError", 0)

\* FileStore.insert_resource.  rid: the id the store generates for the new
\* document, one that no document has and that no client has asked for.
insert_resource(spec, rid, valid) ==
    /\ resource_col[rid] = Absent
    /\ _resource_cache[rid] = Miss
    /\ resource_col' = _insert_resource(resource_col, spec, rid, valid)
    /\ UNCHANGED <<handler_reg, _handler_cache, _resource_cache, nextInst,
                   stash, _h_registry, mod_ctx, rest, gone>>
    /\ last' = Call("insert", spec,
                    IF valid THEN "none" ELSE "ValidationError", 0)

\* ---------------------------------------------------------------- retrieve
\* HandlerRegistry.register_handler on the module-level registry
HandlerRegistry_register_handler(reg, key, handler, overwrite) ==
    IF (~overwrite) /\ reg[key] # NoHandler THEN reg
    ELSE [reg EXCEPT ![key] = handler]

\* what it raises
HandlerRegistry_register_exc(reg, key, handler, overwrite) ==
    IF (~overwrite) /\ reg[key] # NoHandler /\ reg[key] # handler
    THEN "RuntimeError" ELSE "none"

\* HandlerRegistry.deregister_handler
HandlerRegistry_deregister_handler(reg, key) == [reg EXCEPT ![key] = NoHandler]

\* retrieve.register_handler
retrieve_register_handler(key, handler, overwrite) ==
    /\ _h_registry' =
           HandlerRegistry_register_handler(_h_registry, key, handler, overwrite)
    /\ UNCHANGED <<handler_reg, _handler_cache, _resource_cache, resource_col,
                   nextInst, rest, stash, mod_ctx, gone>>
    /\ last' = Call("mod_register", key,
           HandlerRegistry_register_exc(_h_registry, key, handler, overwrite), 0)

\* retrieve.deregister_handler
retrieve_deregister_handler(key) ==
    /\ _h_registry' = HandlerRegistry_deregister_handler(_h_registry, key)
    /\ UNCHANGED <<handler_reg, _handler_cache, _resource_cache, resource_col,
                   nextInst, rest, stash, mod_ctx, gone>>
    /\ last' = Call("mod_deregister", key, "none", 0)

\* retrieve.handler_context, up to the yield.  Each key of temp_handlers goes
\* to remove_list when the registry does not hold it, and otherwise is popped
\* and goes to replace_list with the handler it had; then it is registered.
\* The frame keeps the two lists, and the registry as it was at entry.
retrieve_handler_context_enter(temp_handlers) ==
    LET keys == {k \in Specs : temp_handlers[k] # NoHandler}
        remove_list == {k \in keys : _h_registry[k] = NoHandler}
        replace_list == [k \in keys \ remove_list |-> _h_registry[k]]
    IN  /\ _h_registry' = [k \in Specs |-> IF k \in keys THEN temp_handlers[k]
                                           ELSE _h_registry[k]]
        /\ mod_ctx' = <<[remove_list |-> remove_list,
                         replace_list |-> replace_list,
                         entry |-> _h_registry]>> \o mod_ctx
        /\ UNCHANGED <<handler_reg, _handler_cache, _resource_cache,
                       resource_col, nextInst, rest, stash, gone>>
        /\ last' = Call("mod_enter", "-", "none", 0)

\* retrieve.handler_context after the yield: the two loops run when the body
\* returns; an exception raised by the body leaves the generator at the yield
\* (there is no try/finally) and they do not run.
retrieve_handler_context_exit(raised) ==
    /\ mod_ctx # <<>>
    /\ LET f == Head(mod_ctx)
       IN  _h_registry' =
               IF raised THEN _h_registry
               ELSE [k \in Specs |->
                        IF k \in f.remove_list THEN NoHandler
                        ELSE IF k \in DOMAIN f.replace_list THEN f.replace_list[k]
                        ELSE _h_registry[k]]
    /\ mod_ctx' = Tail(mod_ctx)
    /\ UNCHANGED <<handler_reg, _handler_cache, _resource_cache, resource_col,
                   nextInst, rest, stash, gone>>
    /\ last' = Call("mod_exit", "-", IF raised THEN "body" ELSE "none", 0)

\* ---------------------------------------------------------------- data
\* the spec NpyWriter and save_ndarray write their resources under
npy == "s1"

\* the handler classes of the retrievals: handlers.NpyHandler and
\* handlers.NpyFrameWise
DataHandlers == {"NpyHandler", "NpyFrameWise"}

\* what a path holds: nothing, bytes that are no npy file, or an npy file
NoFile == [kind |-> "nofile", shape |-> <<0, 0>>, data |-> <<>>]
Garbage == [kind |-> "garbage", shape |-> <<0, 0>>, data |-> <<>>]

\* the value of a retrieval that returned nothing
NoValue == <<>>

\* the arrays saved: two-dimensional, of these shapes, over these numbers
Shapes == {<<1, 2>>, <<2, 1>>}
Numbers == {0, 1}
Arrays == UNION {[1..sh[1] -> [1..sh[2] -> Numbers]] : sh \in Shapes}

\* np.save: the header with the shape, then the elements in row-major order
np_save(v) ==
    LET rows == Len(v)
        cols == Len(v[1])
    IN  [kind |-> "npy", shape |-> <<rows, cols>>,
         data |-> [k \in 1..(rows * cols) |->
                      v[((k - 1) \div cols) + 1][((k - 1) % cols) + 1]]]

\* (a slip: the shape of the header is not applied)
np_loadFlat(f) == <<f.data>>

\* np.load: the elements arranged by the shape of the header
np_load(f) ==
    [i \in 1..f.shape[1] |->
        [j \in 1..f.shape[2] |-> f.data[(i - 1) * f.shape[2] + j]]]

\* what a retrieval gives its caller: the exception that left it ("none":
\* it returned), the value returned, and the calls it made of the handler's
\* constructor and of the handler
Gave(exc, value, ctor_calls, calls) ==
    [exc |-> exc, value |-> value, ctor_calls |-> ctor_calls, calls |-> calls]

\* NpyHandler.__init__ and NpyFrameWise.__init__: the exception raised.
\* Both raise IOError when the path does not exist; NpyFrameWise loads the
\* file at once, which fails on bytes that are no npy file.
Handler_init(handler, file) ==
    IF file = NoFile THEN "IOError"
    ELSE IF handler = "NpyFrameWise" /\ file = Garbage THEN "LoadError"
    ELSE "none"

\* NpyHandler.__call__() and NpyFrameWise.__call__(frame_no), called with
\* **kwargs: the exception raised and the value returned.  kwargs is <<>> or
\* <<frame_no>>.
Handler_call(handler, file, kwargs) ==
    IF handler = "NpyHandler"
    THEN IF kwargs # <<>> THEN [exc |-> "TypeError", value |-> NoValue]
         ELSE IF file = Garbage THEN [exc |-> "LoadError", value |-> NoValue]
         ELSE [exc |-> "none", value |-> np_load(file)]
    ELSE IF kwargs = <<>> THEN [exc |-> "TypeError", value |-> NoValue]
         ELSE IF kwargs[1] >= Len(np_load(file))
         THEN [exc |-> "IndexError", value |-> NoValue]
         ELSE [exc |-> "none", value |-> np_load(file)[kwargs[1] + 1]]

\* (a slip: what the handler raises is caught and nothing is returned)
get_dataQuiet(datum) == Gave("none", NoValue, 1, 1)

\* retrieve.get_data with the module-level registry: get_spec_handler looks
\* the spec up, constructs the handler, and the handler is called with the
\* datum's kwargs.  Nothing is caught.
get_data(datum) ==
    LET spec == resource_col[datum.resource]
        file == files[datum.resource]
        handler == _h_registry[spec]
        called == Handler_call(handler, file, datum.datum_kwargs)
    IN  IF handler = NoHandler THEN Gave("KeyError", NoValue, 0, 0)
        ELSE IF Handler_init(handler, file) # "none"
        THEN Gave(Handler_init(handler, file), NoValue, 1, 0)
        ELSE Gave(called.exc, called.value, 1, 1)

\* the datum ids the collection holds
DatumIds(col) == {col[i].datum_id : i \in 1..Len(col)}

\* file_writers.save_ndarray: np.save to a new file, a resource of spec npy
\* for it and one datum, without kwargs, under a new datum id
save_ndarray(v, rid, datum_id) ==
    /\ resource_col[rid] = Absent
    /\ datum_id \notin DatumIds(datum_col)
    /\ files' = [files EXCEPT ![rid] = np_save(v)]
    /\ resource_col' = [resource_col EXCEPT ![rid] = npy]
    /\ datum_col' = Append(datum_col, [datum_id |-> datum_id, resource |-> rid,
                                       datum_kwargs |-> <<>>])
    /\ UNCHANGED <<more_vars, handler_vars, handler_reg, _handler_cache, _resource_cache, nextInst,
                   stash, _h_registry, mod_ctx, gone, lru_vars, datum_index,
                   __datum_col, out>>
    /\ last' = Call("save", npy, "none", 0)

\* commands.retrieve: the datum of the id, then get_data
retrieve(eid) ==
    /\ \E i \in 1..Len(datum_col) :
           /\ datum_col[i].datum_id = eid
           /\ out' = get_data(datum_col[i])
    /\ UNCHANGED <<more_vars, handler_vars, handler_reg, _handler_cache, _resource_cache, resource_col,
                   nextInst, stash, _h_registry, mod_ctx, gone, lru_vars,
                   store_vars>>
    /\ last' = Call("retrieve", "-", out'.exc, 0)

\* the file of a resource is removed, or overwritten with other bytes (as
\* test_sneaky_write_fail does), by something outside the program
file_lost(rid, bytes) ==
    /\ files[rid] \notin {NoFile, bytes}
    /\ files' = [files EXCEPT ![rid] = bytes]
    /\ UNCHANGED <<more_vars, handler_vars, handler_reg, _handler_cache, _resource_cache, resource_col,
                   nextInst, stash, _h_registry, mod_ctx, gone, lru_vars,
                   datum_col, datum_index, __datum_col, out>>
    /\ last' = Call("lost", "-", "none", 0)

\* handler(rpath, **kwargs) of FileStoreRO.get_spec_handler raises: the
\* resource is stored, its spec is bound and the constructor of the class
\* fails on the file
ctor_fails(rid) ==
    LET resource == LRUGet(_resource_cache, rid)
    IN  /\ resource # None
        /\ ChainContains(handler_reg, resource)
        /\ Handler_init(ChainGet(handler_reg, resource), files[rid]) # "none"

\* FileStoreRO.get_spec_handler over the files of the resources
fs_get_spec_handler(rid) == get_spec_handler(rid, ctor_fails(rid))

\* ---------------------------------------------------------------- datum
\* the datum ids and the datum_kwargs a client passes (None: no kwargs)
DIds == 1..MaxDatumId

DKwargs == {None, "k1"}

\* the lists bulk_insert_datum is given
Lists(S) == UNION {[1..n -> S] : n \in 0..MaxBulk}

\* (a slip: the collection is handed out without its indexes)
_datum_colNoIndex(handle, index) == [handle |-> "datum", index |-> index]

\* FileStoreRO._datum_col: the first access after __init__ or disconnect
\* gets the collection and creates the unique index on datum_id
_datum_col(handle, index) ==
    IF handle = None THEN [handle |-> "datum", index |-> TRUE]
    ELSE [handle |-> handle, index |-> index]

\* the store's insert of one document into the datum collection: with the
\* unique index, a datum_id the collection holds is refused
col_insert(col, index, doc) ==
    IF index /\ doc.datum_id \in DatumIds(col)
    THEN [exc |-> "ConflictError", col |-> col]
    ELSE [exc |-> "none", col |-> Append(col, doc)]

\* the document of a datum
Datum(rid, datum_id, datum_kwargs) ==
    [datum_id |-> datum_id, resource |-> rid, datum_kwargs |-> datum_kwargs]

\* core.insert_datum: validates datum_kwargs against the spec's datum schema
\* (valid: they pass) and persists the document
_insert_datum(col, index, rid, datum_id, datum_kwargs, valid) ==
    IF ~valid THEN [exc |-> "ValidationError", col |-> col]
    ELSE col_insert(col, index, Datum(rid, datum_id, datum_kwargs))

\* FileStore.insert_datum.  as_doc: resource is a document (resource['spec']
\* works); otherwise it is an id, looked up with find_one, and an id without
\* a document gives None, whose subscription raises TypeError.
insert_datum(rid, as_doc, datum_id, datum_kwargs, valid) ==
    LET col == _datum_col(__datum_col, datum_index)
        kwargs == IF datum_kwargs = None THEN "{}" ELSE datum_kwargs
        done == IF (~as_doc) /\ resource_col[rid] = Absent
                THEN [exc |-> "TypeError", col |-> datum_col]
                ELSE _insert_datum(datum_col, col.index, rid, datum_id,
                                   kwargs, valid)
    IN  /\ as_doc => resource_col[rid] # Absent
        /\ __datum_col' = col.handle
        /\ datum_index' = col.index
        /\ datum_col' = done.col
        /\ UNCHANGED <<more_vars, handler_vars, handler_reg, _handler_cache, _resource_cache,
                       resource_col, nextInst, stash, _h_registry, mod_ctx,
                       gone, lru_vars, files, out>>
        /\ last' = Call("insert_datum", "-", done.exc,
                        Len(datum_col') - Len(datum_col))

\* (a slip: a document refused is skipped and nothing is raised)
RECURSIVE col_insert_manyQuiet(_, _, _, _)
col_insert_manyQuiet(col, index, docs, i) ==
    IF i > Len(docs) THEN [exc |-> "none", col |-> col]
    ELSE col_insert_manyQuiet(col_insert(col, index, docs[i]).col, index,
                              docs, i + 1)

\* the store's ordered insert of the documents docs[i..]: it stops at the
\* first one refused
RECURSIVE col_insert_many(_, _, _, _)
col_insert_many(col, index, docs, i) ==
    IF i > Len(docs) THEN [exc |-> "none", col |-> col]
    ELSE LET one == col_insert(col, index, docs[i])
         IN  IF one.exc # "none" THEN one
             ELSE col_insert_many(one.col, index, docs, i + 1)

\* core.bulk_insert_datum: the lists must be of one length; the documents go
\* to the store in one round trip, with no validation of the kwargs.  When
\* the store refuses one, those before it stay (ordered) or none does.
_bulk_insert_datum(col, index, rid, datum_ids, datum_kwarg_list, ordered) ==
    LET docs == [i \in 1..Len(datum_ids) |->
                    Datum(rid, datum_ids[i], datum_kwarg_list[i])]
        many == col_insert_many(col, index, docs, 1)
    IN  IF Len(datum_ids) # Len(datum_kwarg_list)
        THEN [exc |-> "ValidationError", col |-> col]
        ELSE IF many.exc = "none" \/ ordered THEN many
        ELSE [exc |-> many.exc, col |-> col]

\* FileStore.bulk_insert_datum
bulk_insert_datum(rid, datum_ids, datum_kwarg_list, ordered) ==
    LET col == _datum_col(__datum_col, datum_index)
        done == _bulk_insert_datum(datum_col, col.index, rid, datum_ids,
                                   datum_kwarg_list, ordered)
    IN  /\ __datum_col' = col.handle
        /\ datum_index' = col.index
        /\ datum_col' = done.col
        /\ UNCHANGED <<more_vars, handler_vars, handler_reg, _handler_cache, _resource_cache,
                       resource_col, nextInst, stash, _h_registry, mod_ctx,
                       gone, lru_vars, files, out>>
        /\ last' = Call("bulk_insert_datum", "-", done.exc,
                        Len(datum_col') - Len(datum_col))

\* FileStoreRO.disconnect
disconnect ==
    /\ __datum_col' = None
    /\ UNCHANGED <<more_vars, handler_vars, handler_reg, _handler_cache, _resource_cache, resource_col,
                   nextInst, stash, _h_registry, mod_ctx, gone, lru_vars,
                   files, datum_col, datum_index, out>>
    /\ last' = Call("disconnect", "-", "none", 0)

\* the configs a client passes, each naming a store of its own
Configs == {"c1", "c2"}

\* the collections of a store nothing was inserted into
EmptyStore == [resource_col |-> [r \in RIds |-> Absent], datum_col |-> <<>>,
               datum_index |-> FALSE]

\* the collections of the store connected to
Connected ==
    [resource_col |-> resource_col, datum_col |-> datum_col,
     datum_index |-> datum_index]

\* (a slip: the three caches are emptied with the handles)
reconfigureFlush(cfg) ==
    /\ __datum_col' = None
    /\ config' = cfg
    /\ stores' = IF cfg = config THEN stores
                 ELSE [stores EXCEPT ![config] = Connected, ![cfg] = EmptyStore]
    /\ resource_col' = IF cfg = config THEN resource_col
                       ELSE stores[cfg].resource_col
    /\ datum_col' = IF cfg = config THEN datum_col ELSE stores[cfg].datum_col
    /\ datum_index' = IF cfg = config THEN datum_index
                      ELSE stores[cfg].datum_index
    /\ _handler_cache' = << >>
    /\ _resource_cache' = [r \in RIds |-> Miss]
    /\ _datum_cache' = {}
    /\ UNCHANGED <<conc, closed, handler_vars, handler_reg, nextInst, stash,
                   _h_registry, mod_ctx, gone, lru_vars, files, out>>
    /\ last' = Call("reconfigure", "-", "none", 0)

\* FileStoreRO.reconfigure: disconnect, then the new config is kept.  The
\* handles are made again on their next use, from the config: the
\* collections reached from then on are those of the store cfg names.
reconfigure(cfg) ==
    /\ __datum_col' = None
    /\ config' = cfg
    /\ stores' = IF cfg = config THEN stores
                 ELSE [stores EXCEPT ![config] = Connected, ![cfg] = EmptyStore]
    /\ resource_col' = IF cfg = config THEN resource_col
                       ELSE stores[cfg].resource_col
    /\ datum_col' = IF cfg = config THEN datum_col ELSE stores[cfg].datum_col
    /\ datum_index' = IF cfg = config THEN datum_index
                      ELSE stores[cfg].datum_index
    /\ UNCHANGED <<conc, closed, _datum_cache, handler_vars, handler_reg,
                   _handler_cache, _resource_cache, nextInst, stash,
                   _h_registry, mod_ctx, gone, lru_vars, files, out>>
    /\ last' = Call("reconfigure", "-", "none", 0)

\* FileStoreRO.get_datum, with core.get_datum: the datum through the datum
\* cache, read from the store on a miss; then get_spec_handler of its
\* resource.  What the handler returns when called is left out.
get_datum(eid, ctor_raises) ==
    LET col == _datum_col(__datum_col, datum_index)
        cached == {d \in _datum_cache : d.datum_id = eid}
        found == {datum_col[i] : i \in {j \in 1..Len(datum_col) :
                                            datum_col[j].datum_id = eid}}
        datum == CHOOSE d \in (IF cached # {} THEN cached ELSE found) : TRUE
    IN  /\ __datum_col' = col.handle
        /\ datum_index' = col.index
        /\ UNCHANGED <<conc, closed, config, stores, handler_vars, lru_vars,
                       files, datum_col, out>>
        /\ IF cached = {} /\ found = {}
           THEN /\ UNCHANGED <<_datum_cache, handler_reg, _handler_cache,
                               _resource_cache, resource_col, nextInst, stash,
                               _h_registry, mod_ctx, gone>>
                /\ last' = Call("get_datum", "-", "NotFoundError", 0)
           ELSE /\ _datum_cache' = _datum_cache \cup {datum}
                /\ get_spec_handler_do(datum.resource, ctor_raises)

\* ---------------------------------------------------------------- handlers
\* the handler classes that take frame_per_point
FrameHandlers == {"AreaDetectorSPEHandler", "AreaDetectorTiffHandler",
                  "HDF5DatasetSliceHandler", "AreaDetectorHDF5Handler"}

\* a handler: its class, self._fpp, the length of self._image_sequence (of
\* the Tiff handler) and whether self._file is an open file (of the HDF5
\* handlers).  opened counts the files the handler has opened: the file open
\* is the one of that number; _dataset is the number of the file that
\* self._dataset or self._dset was taken from, 0 for None.
Handler(class, _fpp, _len, _file) ==
    [class |-> class, _fpp |-> _fpp, _len |-> _len, _file |-> _file,
     opened |-> IF _file THEN 1 ELSE 0,
     _dataset |-> IF _file /\ class \in {"HDFMapsSpectrumHandler",
                                          "HDFMapsEnergyHandler"}
                  THEN 1 ELSE 0]

\* no handler constructed yet
NoInst == Handler("none", 0, 0, FALSE)

\* the frames the data holds: frame k is the number k
Frames(n) == [k \in 1..n |-> k]

Min(a, b) == IF a < b THEN a ELSE b

\* s[start:stop] of Python, for 0 <= start <= stop: the bounds are cut to
\* the length of s
Slice(s, start, stop) ==
    SubSeq(s, Min(start, Len(s)) + 1, Min(stop, Len(s)))

\* a call that returned frames .squeeze()d: an axis of length one is dropped
Returned(frames) ==
    [exc |-> "none", frames |-> frames, shape |-> <<Len(frames)>>,
     squeezed |-> Len(frames) = 1, expected |-> 0, found |-> 0,
     read |-> 0, rescans |-> 0]

\* a call that raised, with the two numbers of its message
Raised(exc, expected, found) ==
    [exc |-> exc, frames |-> <<>>, shape |-> <<0>>, squeezed |-> FALSE,
     expected |-> expected, found |-> found, read |-> 0, rescans |-> 0]

\* AreaDetectorSPEHandler.__call__: the file of the point holds n frames
SPE_call(h, n, point_number) ==
    IF n # h._fpp THEN Raised("IntegrityError", h._fpp, n)
    ELSE Returned(Frames(n))

\* (a slip: the files are never listed again)
Tiff_lenKept(h, n, point_number) == h._len

\* AreaDetectorTiffHandler.__call__: the length of the image sequence after
\* the call, which lists the files again when stop is past its end
Tiff_len(h, n, point_number) ==
    IF (point_number + 1) * h._fpp > h._len THEN n ELSE h._len

\* AreaDetectorTiffHandler.__call__; rescans counts the times it lists the
\* files again
Tiff_call(h, n, point_number) ==
    LET start == point_number * h._fpp
        stop == (point_number + 1) * h._fpp
        len == Tiff_len(h, n, point_number)
        rescans == IF stop > h._len THEN 1 ELSE 0
    IN  IF stop > len
        THEN [Raised("IntegrityError", stop, len) EXCEPT !.rescans = rescans]
        ELSE [Returned(Slice(Frames(len), start, stop))
                  EXCEPT !.rescans = rescans]

\* the handlers of one dataset of an HDF5 file
SliceHandlers == {"HDF5DatasetSliceHandler", "AreaDetectorHDF5Handler"}

\* (a slip: a handle is true unless it is None)
TruthyNotNone(h, handle) == handle # 0

\* bool(handle) of an h5py dataset: whether it is accessible, which it is not
\* once its file was closed
Truthy(h, handle) == handle # 0 /\ h._file /\ handle = h.opened

\* self._dataset after HDF5DatasetSliceHandler.__call__: taken from
\* self._file when not self._dataset, unless self._file is None
HDF5_dataset(h) ==
    IF (~Truthy(h, h._dataset)) /\ h._file THEN h.opened ELSE h._dataset

\* HDF5DatasetSliceHandler.__call__, which AreaDetectorHDF5Handler inherits:
\* self._file[self._key] raises TypeError when self._file is None; the
\* result is the slice of the dataset, whatever its length
HDF5_call(h, n, point_number) ==
    LET start == point_number * h._fpp
        stop == (point_number + 1) * h._fpp
    IN  IF (~Truthy(h, h._dataset)) /\ ~h._file THEN Raised("TypeError", 0, 0)
        ELSE [Returned(Slice(Frames(n), start, stop))
                  EXCEPT !.read = HDF5_dataset(h)]

\* the constructors: frame_per_point is kept; the Tiff handler lists its
\* files, the HDF5 handlers open their file
Handler_new(class, frame_per_point) ==
    /\ h_inst' = Handler(class, frame_per_point,
                         IF class = "AreaDetectorTiffHandler" THEN disk ELSE 0,
                       class \in {"HDF5DatasetSliceHandler",
                                  "AreaDetectorHDF5Handler"})
    /\ UNCHANGED <<disk, dset, got>>
    /\ UNCHANGED <<more_vars, handler_reg, _handler_cache, _resource_cache, resource_col,
                   nextInst, stash, _h_registry, mod_ctx, gone, last,
                   lru_vars, store_vars, out>>

\* handler(point_number)
Handler_frames(point_number) ==
    /\ h_inst.class \in FrameHandlers
    /\ got' = IF h_inst.class = "AreaDetectorSPEHandler"
              THEN SPE_call(h_inst, disk, point_number)
              ELSE IF h_inst.class = "AreaDetectorTiffHandler"
              THEN Tiff_call(h_inst, disk, point_number)
              ELSE HDF5_call(h_inst, disk, point_number)
    /\ h_inst' = IF h_inst.class = "AreaDetectorTiffHandler"
               THEN [h_inst EXCEPT !._len = Tiff_len(h_inst, disk, point_number)]
               ELSE IF h_inst.class \in SliceHandlers
               THEN [h_inst EXCEPT !._dataset = HDF5_dataset(h_inst)]
               ELSE h_inst
    /\ UNCHANGED <<disk, dset>>
    /\ UNCHANGED <<more_vars, handler_reg, _handler_cache, _resource_cache, resource_col,
                   nextInst, stash, _h_registry, mod_ctx, gone, last,
                   lru_vars, store_vars, out>>

\* _HDF5HandlerBase.close of a slice handler: self._file.close() and
\* self._file = None; self._dataset is left as it is
Slice_close ==
    /\ h_inst.class \in SliceHandlers
    /\ h_inst' = [h_inst EXCEPT !._file = FALSE]
    /\ got' = IF h_inst._file THEN got ELSE Raised("AttributeError", 0, 0)
    /\ UNCHANGED <<disk, dset>>
    /\ UNCHANGED <<more_vars, handler_reg, _handler_cache, _resource_cache,
                   resource_col, nextInst, stash, _h_registry, mod_ctx, gone,
                   last, lru_vars, store_vars, out>>

\* _HDF5HandlerBase.open of a slice handler: nothing when self._file is
\* open, else the file is opened again
Slice_open ==
    /\ h_inst.class \in SliceHandlers
    /\ h_inst._file \/ h_inst.opened < MaxOpen
    /\ h_inst' = IF h_inst._file THEN h_inst
               ELSE [h_inst EXCEPT !._file = TRUE, !.opened = @ + 1]
    /\ UNCHANGED <<disk, dset, got>>
    /\ UNCHANGED <<more_vars, handler_reg, _handler_cache, _resource_cache,
                   resource_col, nextInst, stash, _h_registry, mod_ctx, gone,
                   last, lru_vars, store_vars, out>>

\* the detector writes one more frame
frame_written ==
    /\ disk < MaxFrames
    /\ disk' = disk + 1
    /\ UNCHANGED <<h_inst, dset, got>>
    /\ UNCHANGED <<more_vars, handler_reg, _handler_cache, _resource_cache, resource_col,
                   nextInst, stash, _h_registry, mod_ctx, gone, last,
                   lru_vars, store_vars, out>>

\* the MAPS handler classes
MapsHandlers == {"HDFMapsSpectrumHandler", "HDFMapsEnergyHandler"}

\* the datasets of a MAPS file: 3D arrays ordered [energy, x, y], d[e][x][y]
\* with the indexes of Python plus one
Datasets ==
    UNION {[1..E -> [1..X -> [1..Y -> Numbers]]] :
               E \in 1..MaxE, X \in 1..MaxX, Y \in 1..MaxY}

\* dset.shape
Shape(d) == <<Len(d), Len(d[1]), Len(d[1][1])>>

\* a call that returned a 2D array: its shape and its elements, row by row
Returned2D(plane) ==
    LET X == Len(plane)
        Y == Len(plane[1])
    IN  [exc |-> "none",
         frames |-> [k \in 1..(X * Y) |->
                        plane[((k - 1) \div Y) + 1][((k - 1) % Y) + 1]],
         shape |-> <<X, Y>>, squeezed |-> FALSE, expected |-> 0, found |-> 0,
         read |-> 0, rescans |-> 0]

\* (a slip: the two raster indexes are exchanged)
HDFMapsSpectrumHandler_callSwapped(h, d, x, y) ==
    IF ~h._file THEN Raised("RuntimeError", 0, 0)
    ELSE IF y >= Shape(d)[2] \/ x >= Shape(d)[3] THEN Raised("IndexError", 0, 0)
    ELSE Returned([e \in 1..Shape(d)[1] |-> d[e][y + 1][x + 1]])

\* HDFMapsSpectrumHandler.__call__(x, y): _HdfMapsHandlerBase.__call__ raises
\* when the file is not open; then self._dset[:, x, y], which h5py refuses
\* for an index past the extent
HDFMapsSpectrumHandler_call(h, d, x, y) ==
    IF ~h._file THEN Raised("RuntimeError", 0, 0)
    ELSE IF x >= Shape(d)[2] \/ y >= Shape(d)[3] THEN Raised("IndexError", 0, 0)
    ELSE [Returned([e \in 1..Shape(d)[1] |-> d[e][x + 1][y + 1]])
              EXCEPT !.read = h._dataset]

\* HDFMapsEnergyHandler.__call__(e_index): self._dset[e_index, :, :]
HDFMapsEnergyHandler_call(h, d, e_index) ==
    IF ~h._file THEN Raised("RuntimeError", 0, 0)
    ELSE IF e_index >= Shape(d)[1] THEN Raised("IndexError", 0, 0)
    ELSE [Returned2D(d[e_index + 1]) EXCEPT !.read = h._dataset]

\* a MAPS file is written, before any handler reads it
maps_written(d) ==
    /\ dset = <<>>
    /\ dset' = d
    /\ UNCHANGED <<h_inst, disk, got>>
    /\ UNCHANGED <<more_vars, handler_reg, _handler_cache, _resource_cache, resource_col,
                   nextInst, stash, _h_registry, mod_ctx, gone, last,
                   lru_vars, store_vars, out>>

\* _HdfMapsHandlerBase.__init__: the file is opened and the dataset bound
Maps_new(class) ==
    /\ dset # <<>>
    /\ h_inst' = Handler(class, 0, 0, TRUE)
    /\ UNCHANGED <<disk, dset, got>>
    /\ UNCHANGED <<more_vars, handler_reg, _handler_cache, _resource_cache, resource_col,
                   nextInst, stash, _h_registry, mod_ctx, gone, last,
                   lru_vars, store_vars, out>>

\* _HDF5HandlerBase.close: self._file.close() and self._file = None; on a
\* closed handler None has no close
Maps_close ==
    /\ h_inst.class \in MapsHandlers
    /\ h_inst' = [h_inst EXCEPT !._file = FALSE]
    /\ got' = IF h_inst._file THEN got ELSE Raised("AttributeError", 0, 0)
    /\ UNCHANGED <<disk, dset>>
    /\ UNCHANGED <<more_vars, handler_reg, _handler_cache, _resource_cache, resource_col,
                   nextInst, stash, _h_registry, mod_ctx, gone, last,
                   lru_vars, store_vars, out>>

\* _HdfMapsHandlerBase.open: nothing when the file is open, else the file
\* is opened again and self._dset taken from it
Maps_open ==
    /\ h_inst.class \in MapsHandlers
    /\ h_inst._file \/ h_inst.opened < MaxOpen
    /\ h_inst' = IF h_inst._file THEN h_inst
               ELSE [h_inst EXCEPT !._file = TRUE, !.opened = @ + 1,
                                   !._dataset = h_inst.opened + 1]
    /\ UNCHANGED <<disk, dset, got>>
    /\ UNCHANGED <<more_vars, handler_reg, _handler_cache, _resource_cache, resource_col,
                   nextInst, stash, _h_registry, mod_ctx, gone, last,
                   lru_vars, store_vars, out>>

\* handler(**datum_kwargs) of a MAPS handler: kwargs is <<x, y>> or
\* <<e_index>>; other kwargs than the signature's are a TypeError
Maps_call(kwargs) ==
    /\ h_inst.class \in MapsHandlers
    /\ got' = IF h_inst.class = "HDFMapsSpectrumHandler"
              THEN IF Len(kwargs) # 2 THEN Raised("TypeError", 0, 0)
                   ELSE HDFMapsSpectrumHandler_call(h_inst, dset,
                                                    kwargs[1], kwargs[2])
              ELSE IF Len(kwargs) # 1 THEN Raised("TypeError", 0, 0)
                   ELSE HDFMapsEnergyHandler_call(h_inst, dset, kwargs[1])
    /\ UNCHANGED <<h_inst, disk, dset>>
    /\ UNCHANGED <<more_vars, handler_reg, _handler_cache, _resource_cache, resource_col,
                   nextInst, stash, _h_registry, mod_ctx, gone, last,
                   lru_vars, store_vars, out>>

\* ---------------------------------------------------------------- LRU
\* the ids of the runs that fill the caches
LruIds == 1..LruRes

\* boltons LRU: a hit moves the key to the front of the list
LRU_touch(order, k) == <<k>> \o SelectSeq(order, LAMBDA j : j # k)

\* boltons LRU.__setitem__ of a key the cache does not hold: at max_size
\* entries the least recently used one is evicted
LRU_setitem(order, k, max_size) ==
    IF Len(order) < max_size THEN <<k>> \o order
    ELSE <<k>> \o SubSeq(order, 1, Len(order) - 1)

\* the keys an LRU holds
LRU_keys(order) == {order[i] : i \in 1..Len(order)}

\* FileStoreRO.get_spec_handler as the two caches see it, for stored
\* resources of a registered spec: self._resource_cache[resource] reads the
\* store on a miss, h_cache[key] is a hit or handler(rpath, **kwargs) is
\* called and its result stored, unless the constructor raises.
get_spec_handler_LRU(rid, ctor_raises) ==
    LET r_hit == rid \in LRU_keys(_resource_lru)
        h_hit == rid \in LRU_keys(_handler_lru)
    IN  /\ _resource_lru' = IF r_hit THEN LRU_touch(_resource_lru, rid)
                            ELSE LRU_setitem(_resource_lru, rid, LruMaxSize)
        /\ reads' = IF r_hit THEN reads
                    ELSE [reads EXCEPT ![rid] = reads[rid] + 1]
        /\ _handler_lru' = IF h_hit THEN LRU_touch(_handler_lru, rid)
                           ELSE IF ctor_raises THEN _handler_lru
                           ELSE LRU_setitem(_handler_lru, rid, LruMaxSize)
        /\ built' = IF h_hit THEN built
                    ELSE [built EXCEPT ![rid] = built[rid] + 1]
        /\ UNCHANGED <<more_vars, handler_vars, handler_reg, _handler_cache, _resource_cache,
                       resource_col, nextInst, stash, _h_registry, mod_ctx,
                       gone, last, store_vars, out>>

\* ---------------------------------------------------------------- threads
\* no call in flight.  g: the position of get_spec_handler, d: the position
\* of deregister_handler or of the exit of handler_context; the locals of
\* each; removed: the names of the handlers the eviction has removed
Idle == [g |-> "idle", rid |-> 0, resource |-> None, handler |-> NoHandler,
         layer |-> 0, ret |-> 0, exc |-> "none",
         d |-> "idle", names |-> {}, name |-> "-", keys |-> {}, removed |-> {}]

\* what a statement of either call leaves alone
conc_frame ==
    UNCHANGED <<resource_col, stash, _h_registry, mod_ctx, gone, last, closed,
                config, stores, _datum_cache, lru_vars, store_vars, out,
                handler_vars>>

\* get_spec_handler, fs.py line 202: resource = self._resource_cache[resource]
g_resource(rid) ==
    /\ conc.g = "idle"
    /\ LET resource == LRUGet(_resource_cache, rid)
       IN  /\ _resource_cache' = [_resource_cache EXCEPT ![rid] = resource]
           /\ conc' = [conc EXCEPT !.g = "resolve", !.rid = rid,
                                   !.resource = resource]
    /\ UNCHANGED <<handler_reg, _handler_cache, nextInst>>
    /\ conc_frame

\* lines 206-207: spec = resource['spec']; handler = self.handler_reg[spec]
g_resolve ==
    /\ conc.g = "resolve"
    /\ conc' = IF conc.resource = None
               THEN [conc EXCEPT !.g = "done", !.exc = "TypeError"]
               ELSE IF ~ChainContains(handler_reg, conc.resource)
               THEN [conc EXCEPT !.g = "done", !.exc = "KeyError"]
               ELSE [conc EXCEPT !.g = "try",
                                 !.handler = ChainGet(handler_reg, conc.resource),
                                 !.layer = ChainLevel(handler_reg, conc.resource)]
    /\ UNCHANGED <<handler_reg, _handler_cache, _resource_cache, nextInst>>
    /\ conc_frame

\* lines 208-213: key = (...); try: return h_cache[key]
g_try ==
    /\ conc.g = "try"
    /\ LET key == <<conc.rid, __name__(conc.handler)>>
       IN  conc' = IF key \in DOMAIN _handler_cache
                   THEN [conc EXCEPT !.g = "done", !.ret = _handler_cache[key].id]
                   ELSE [conc EXCEPT !.g = "construct"]
    /\ UNCHANGED <<handler_reg, _handler_cache, _resource_cache, nextInst>>
    /\ conc_frame

\* lines 215-217: ret = handler(rpath, **kwargs)
g_construct(ctor_raises) ==
    /\ conc.g = "construct"
    /\ conc' = IF ctor_raises THEN [conc EXCEPT !.g = "done", !.exc = "handler"]
               ELSE [conc EXCEPT !.g = "store", !.ret = nextInst]
    /\ nextInst' = IF ctor_raises THEN nextInst ELSE nextInst + 1
    /\ UNCHANGED <<handler_reg, _handler_cache, _resource_cache>>
    /\ conc_frame

\* lines 218-219: h_cache[key] = ret; return ret
g_store ==
    /\ conc.g = "store"
    /\ _handler_cache' =
           CachePut(_handler_cache, <<conc.rid, __name__(conc.handler)>>,
                    [id |-> conc.ret, ctor |-> conc.handler,
                     layer |-> conc.layer, seen |-> FALSE])
    /\ conc' = [conc EXCEPT !.g = "done"]
    /\ UNCHANGED <<handler_reg, _resource_cache, nextInst>>
    /\ conc_frame

\* deregister_handler, line 129: handler = self.handler_reg.pop(key, None);
\* with None the call returns
d_pop(key) ==
    /\ conc.d = "idle"
    /\ handler_reg' = deregister_reg(handler_reg, key)
    /\ LET handler == ChainPopped(handler_reg, key)
       IN  conc' = IF handler = NoHandler THEN [conc EXCEPT !.d = "done"]
                   ELSE [conc EXCEPT !.d = "name",
                                     !.names = {__name__(handler)},
                                     !.removed = {__name__(handler)}]
    /\ UNCHANGED <<_handler_cache, _resource_cache, nextInst>>
    /\ conc_frame

\* the exit of handler_context, lines 143-144: popped_reg =
\* self.handler_reg.maps[0]; self.handler_reg = stash
d_exit ==
    /\ conc.d = "idle"
    /\ stash # <<>>
    /\ handler_reg' = Tail(handler_reg)
    /\ stash' = Tail(stash)
    /\ conc' = [conc EXCEPT !.d = "name",
                            !.names = ValueNames(Head(handler_reg)),
                            !.removed = ValueNames(Head(handler_reg))]
    /\ UNCHANGED <<_handler_cache, _resource_cache, nextInst>>
    /\ UNCHANGED <<resource_col, _h_registry, mod_ctx, gone, last, closed,
                   config, stores, _datum_cache, lru_vars, store_vars, out,
                   handler_vars>>

\* lines 131-132 and 145-147: name = handler.__name__ and
\* list(self._handler_cache), for the next handler; the call returns when
\* there is none
d_list ==
    /\ conc.d = "name"
    /\ IF conc.names = {} THEN conc' = [conc EXCEPT !.d = "done"]
       ELSE \E name \in conc.names :
               conc' = [conc EXCEPT !.d = "del", !.name = name,
                                    !.names = conc.names \ {name},
                                    !.keys = DOMAIN _handler_cache]
    /\ UNCHANGED <<handler_reg, _handler_cache, _resource_cache, nextInst>>
    /\ conc_frame

\* lines 132-134 and 147-149: one turn of for k in ...: if k[1] == name:
\* del self._handler_cache[k]; after the last key the next handler is taken
d_del ==
    /\ conc.d = "del"
    /\ IF conc.keys = {}
       THEN /\ conc' = [conc EXCEPT !.d = "name"]
            /\ UNCHANGED _handler_cache
       ELSE \E k \in conc.keys :
               /\ conc' = [conc EXCEPT !.keys = conc.keys \ {k}]
               /\ _handler_cache' =
                      IF k[2] = conc.name
                      THEN [q \in DOMAIN _handler_cache \ {k} |-> _handler_cache[q]]
                      ELSE _handler_cache
    /\ UNCHANGED <<handler_reg, _resource_cache, nextInst>>
    /\ conc_frame

\* ---------------------------------------------------------------- FileStore
\* the state of FileStoreRO.__init__ beyond the registry
RestInit ==
    /\ _resource_lru = <<>>
    /\ _handler_lru = <<>>
    /\ reads = [r \in LruIds |-> 0]
    /\ built = [r \in LruIds |-> 0]
    /\ files = [r \in RIds |-> NoFile]
    /\ datum_col = <<>>
    /\ datum_index = FALSE
    /\ __datum_col = None
    /\ out = Gave("none", NoValue, 0, 0)
    /\ h_inst = NoInst
    /\ disk = 0
    /\ dset = <<>>
    /\ got = Returned(<<>>)
    /\ conc = Idle
    /\ closed = {}
    /\ config = "c1"
    /\ stores = [c \in Configs |-> EmptyStore]
    /\ _datum_cache = {}

\* the dicts over the handler classes hs
Dicts(hs) == [Specs -> hs \cup {NoHandler}]

\* FileStoreRO.__init__ with any handler_reg dict, on an empty store
InitWith(hs) ==
    /\ handler_reg \in {<<m>> : m \in Dicts(hs)}
    /\ _handler_cache = << >>
    /\ _resource_cache = [r \in RIds |-> Miss]
    /\ resource_col = [r \in RIds |-> Absent]
    /\ nextInst = 1
    /\ stash = <<>>
    /\ _h_registry = EmptyLayer
    /\ mod_ctx = <<>>
    /\ gone = {}
    /\ last = [op |-> "init", key |-> "-", exc |-> "none", ret |-> 0,
               evicted |-> 0]
    /\ RestInit

\* the calls of a client, within the bounds given
Calls(hs, depth, res, inst) ==
    \/ \E key \in Specs, handler \in hs, overwrite \in BOOLEAN :
           register_handler(key, handler, overwrite)
    \/ \E key \in Specs : deregister_handler(key)
    \/ \E temp_handlers \in Dicts(hs) :
           Len(stash) < depth /\ handler_context_enter(temp_handlers)
    \/ \E raised \in BOOLEAN : handler_context_exit(raised)
    \/ \E rid \in 1..res, ctor_raises \in BOOLEAN :
           get_spec_handler(rid, ctor_raises) /\ nextInst' <= inst + 1
    \/ \E spec \in Specs, rid \in 1..res, valid \in BOOLEAN :
           insert_resource(spec, rid, valid)

\* one resource, one context, every handler class
Init == InitWith(Handlers)

Next == Calls(Handlers, MaxDepth, MaxRes, MaxInst)

Spec == Init /\ [][Next]_vars

\* nested contexts
InitNest == InitWith(NestHandlers)

NextNest == Calls(NestHandlers, NestDepth, NestRes, NestInst)

SpecNest == InitNest /\ [][NextNest]_vars

\* several resources
InitWide == InitWith(NestHandlers)

NextWide == Calls(NestHandlers, WideDepth, WideRes, WideInst)

SpecWide == InitWide /\ [][NextWide]_vars

\* the module-level registry of retrieve.py
NextRetrieve ==
    \/ \E key \in Specs, handler \in NestHandlers, overwrite \in BOOLEAN :
           retrieve_register_handler(key, handler, overwrite)
    \/ \E key \in Specs : retrieve_deregister_handler(key)
    \/ \E temp_handlers \in Dicts(NestHandlers) :
           Len(mod_ctx) < ModDepth /\ retrieve_handler_context_enter(temp_handlers)
    \/ \E raised \in BOOLEAN : retrieve_handler_context_exit(raised)

SpecRetrieve == InitNest /\ [][NextRetrieve]_vars

\* retrievals of LruRes stored resources through caches of LruMaxSize entries
InitLRU == InitWith({"A1"}) /\ \A s \in Specs : resolve(s) = "A1"

NextLRU ==
    \E rid \in LruIds, ctor_raises \in BOOLEAN :
        /\ get_spec_handler_LRU(rid, ctor_raises)
        /\ reads'[rid] <= LruCalls
        /\ built'[rid] <= LruCalls

SpecLRU == InitLRU /\ [][NextLRU]_vars

\* arrays saved and retrieved through the module-level registry
InitData == InitWith(DataHandlers) /\ handler_reg = <<EmptyLayer>>

NextData ==
    \/ \E key \in Specs, handler \in DataHandlers, overwrite \in BOOLEAN :
           retrieve_register_handler(key, handler, overwrite)
    \/ \E key \in Specs : retrieve_deregister_handler(key)
    \/ \E temp_handlers \in Dicts(DataHandlers) :
           Len(mod_ctx) < DataDepth /\ retrieve_handler_context_enter(temp_handlers)
    \/ \E raised \in BOOLEAN : retrieve_handler_context_exit(raised)
    \/ \E v \in Arrays, rid \in 1..DataRes, datum_id \in 1..DataRes :
           save_ndarray(v, rid, datum_id)
    \/ \E eid \in 1..DataRes : retrieve(eid)
    \/ \E rid \in 1..DataRes, bytes \in {NoFile, Garbage} : file_lost(rid, bytes)

SpecData == InitData /\ [][NextData]_vars

\* the MAPS handlers over one file
InitMaps == InitWith({"A1"}) /\ handler_reg = <<EmptyLayer>>

NextMaps ==
    \/ \E d \in Datasets : maps_written(d)
    \/ \E class \in MapsHandlers : Maps_new(class)
    \/ Maps_close
    \/ Maps_open
    \/ \E x \in 0..MaxX, y \in 0..MaxY : Maps_call(<<x, y>>)
    \/ \E e_index \in 0..MaxE : Maps_call(<<e_index>>)

SpecMaps == InitMaps /\ [][NextMaps]_vars

\* a retrieval beside a deregistration or an exit, statement by statement,
\* in the state the calls of a client have made
InitConc == InitWith(NestHandlers)

NextConc ==
    \/ \E spec \in Specs, rid \in 1..ConcRes, valid \in BOOLEAN :
           conc = Idle /\ insert_resource(spec, rid, valid)
    \/ \E temp_handlers \in Dicts(NestHandlers) :
           conc = Idle /\ Len(stash) < ConcDepth
                       /\ handler_context_enter(temp_handlers)
    \/ \E rid \in 1..ConcRes, ctor_raises \in BOOLEAN :
           conc = Idle /\ get_spec_handler(rid, ctor_raises)
    \/ \E rid \in 1..ConcRes : g_resource(rid)
    \/ g_resolve
    \/ g_try
    \/ \E ctor_raises \in BOOLEAN : g_construct(ctor_raises)
    \/ g_store
    \/ \E key \in Specs : d_pop(key)
    \/ d_exit
    \/ d_list
    \/ d_del

SpecConc == InitConc /\ [][NextConc]_vars

\* retrievals through both registries over files that come and go
InitFail == InitWith(DataHandlers) /\ handler_reg[1]["s2"] = NoHandler

NextFail ==
    \/ \E handler \in DataHandlers, overwrite \in BOOLEAN :
           retrieve_register_handler(npy, handler, overwrite)
    \/ \E v \in Arrays, rid \in 1..DataRes, datum_id \in 1..DataRes :
           save_ndarray(v, rid, datum_id)
    \/ \E eid \in 1..DataRes : retrieve(eid)
    \/ \E rid \in 1..DataRes, bytes \in {NoFile, Garbage} : file_lost(rid, bytes)
    \/ \E rid \in 1..DataRes : fs_get_spec_handler(rid)

SpecFail == InitFail /\ [][NextFail]_vars

\* resources and datums inserted through a FileStore
InitDatum == InitWith({"A1"}) /\ handler_reg = <<EmptyLayer>>

NextDatum ==
    \/ \E spec \in Specs, rid \in 1..DatumRes, valid \in BOOLEAN :
           insert_resource(spec, rid, valid)
    \/ \E rid \in 1..DatumRes, as_doc \in BOOLEAN, datum_id \in DIds,
          datum_kwargs \in DKwargs, valid \in BOOLEAN :
           insert_datum(rid, as_doc, datum_id, datum_kwargs, valid)
    \/ \E rid \in 1..DatumRes, datum_ids \in Lists(DIds),
          datum_kwarg_list \in Lists(DKwargs), ordered \in BOOLEAN :
           bulk_insert_datum(rid, datum_ids, datum_kwarg_list, ordered)
    \/ disconnect
    \/ \E cfg \in {config} : reconfigure(cfg)

SpecDatum == InitDatum /\ [][NextDatum]_vars

\* the calls of a client who also closes the instances it was returned
InitLife == InitWith(NestHandlers)

NextLife ==
    \/ Calls(NestHandlers, LifeDepth, LifeRes, LifeInst)
    \/ \E id \in 1..LifeInst : handler_close(id)

SpecLife == InitLife /\ [][NextLife]_vars

\* the HDF5 handlers closed, opened again and called
InitOpen == InitWith({"A1"}) /\ handler_reg = <<EmptyLayer>>

NextOpen ==
    \/ \E class \in SliceHandlers, frame_per_point \in 1..MaxFpp :
           Handler_new(class, frame_per_point)
    \/ \E point_number \in 0..MaxPoint : Handler_frames(point_number)
    \/ frame_written
    \/ Slice_close
    \/ Slice_open
    \/ \E d \in {m \in Datasets : Shape(m) = <<1, 1, 1>>} : maps_written(d)
    \/ \E class \in MapsHandlers : Maps_new(class)
    \/ Maps_close
    \/ Maps_open
    \/ \E x \in 0..1, y \in 0..1 : Maps_call(<<x, y>>)
    \/ \E e_index \in 0..1 : Maps_call(<<e_index>>)

SpecOpen == InitOpen /\ [][NextOpen]_vars

\* a FileStore taken from one store to another
InitReconf == InitWith({"A1"}) /\ handler_reg[1]["s2"] = NoHandler

NextReconf ==
    \/ \E rid \in 1..ReconfRes, valid \in BOOLEAN :
           insert_resource("s1", rid, valid)
    \/ \E rid \in 1..ReconfRes, datum_id \in 1..ReconfRes, valid \in BOOLEAN :
           insert_datum(rid, FALSE, datum_id, None, valid)
    \/ \E handler \in {"A1"}, overwrite \in BOOLEAN :
           register_handler("s1", handler, overwrite)
    \/ \E rid \in 1..ReconfRes, ctor_raises \in BOOLEAN :
           get_spec_handler(rid, ctor_raises) /\ nextInst' <= ReconfInst + 1
    \/ \E eid \in 1..ReconfRes, ctor_raises \in BOOLEAN :
           get_datum(eid, ctor_raises) /\ nextInst' <= ReconfInst + 1
    \/ disconnect
    \/ \E cfg \in Configs : reconfigure(cfg)

SpecReconf == InitReconf /\ [][NextReconf]_vars

\* the frame handlers called over data that grows
InitFrames == InitWith({"A1"}) /\ handler_reg = <<EmptyLayer>>

NextFrames ==
    \/ \E class \in FrameHandlers, frame_per_point \in 1..MaxFpp :
           Handler_new(class, frame_per_point)
    \/ \E point_number \in 0..MaxPoint : Handler_frames(point_number)
    \/ frame_written

SpecFrames == InitFrames /\ [][NextFrames]_vars

\* ---------------------------------------------------------------- claims
\* a step leaves every spec resolving to what it resolved to
SameBindings == \A s \in Specs : ChainGet(handler_reg', s) = ChainGet(handler_reg, s)

\* the instance each key of a handler-instance cache holds
Held(cache) == [k \in DOMAIN cache |-> cache[k].id]

\* a step leaves the handler-instance cache holding the same instances under
\* the same keys
SameCache == Held(_handler_cache') = Held(_handler_cache)

\* C1: when key is bound to handler, register_handler(key, handler), for
\* either value of overwrite, raises nothing, leaves every spec bound to what
\* it was bound to and leaves the handler-instance cache as it was.
C1_IdempotentRegistration ==
    [][\A key \in Specs, handler \in Handlers, overwrite \in BOOLEAN :
          (resolve(key) = handler /\ register_handler(key, handler, overwrite))
          => /\ last'.exc = "none"
             /\ SameBindings
             /\ SameCache]_vars

\* C2: when key resolves, in any layer, to another handler,
\* register_handler(key, handler, overwrite=False) raises DuplicateHandler and
\* changes no layer of the registry and nothing in the handler-instance cache.
C2_ConflictDetection ==
    [][\A key \in Specs, handler \in Handlers :
          (/\ resolve(key) \notin {NoHandler, handler}
           /\ register_handler(key, handler, FALSE))
          => /\ last'.exc = "DuplicateHandler"
             /\ handler_reg' = handler_reg
             /\ SameCache]_vars

\* C2, its case: the call raised for a binding held by a parent layer, with
\* instances in the cache
C2_Witness ==
    /\ last.op = "register"
    /\ last.exc = "DuplicateHandler"
    /\ Len(handler_reg) > 1
    /\ Head(handler_reg)[last.key] = NoHandler
    /\ DOMAIN _handler_cache # {}

\* C3: when key resolves to another handler, register_handler(key, handler,
\* overwrite=True) returns, key then resolves to handler, and the cache holds
\* no entry under the name of the handler key resolved to.
C3_OverwriteEviction ==
    [][\A key \in Specs, handler \in Handlers :
          (/\ resolve(key) \notin {NoHandler, handler}
           /\ register_handler(key, handler, TRUE))
          => /\ last'.exc = "none"
             /\ ChainGet(handler_reg', key) = handler
             /\ \A k \in DOMAIN _handler_cache' :
                    k[2] # __name__(resolve(key))]_vars

\* C4 as claimed: after deregister_handler(key), key resolves to nothing; and
\* when key was not bound, nothing changed.
C4_DeregisterUnbinds ==
    [][\A key \in Specs :
          deregister_handler(key)
          => /\ last'.exc = "none"
             /\ ChainGet(handler_reg', key) = NoHandler
             /\ resolve(key) = NoHandler =>
                    /\ UNCHANGED <<handler_reg, _resource_cache>>
                    /\ SameCache]_vars

\* C4 as amended: after deregister_handler(key), maps[0] does not hold key and
\* the parent layers are as they were, so key resolves to what the parent
\* layers bind it to, and to nothing when none does; when maps[0] did not hold
\* key, nothing changed.
C4_DeregisterUnbindsTop ==
    [][\A key \in Specs :
          deregister_handler(key)
          => /\ last'.exc = "none"
             /\ Head(handler_reg')[key] = NoHandler
             /\ Tail(handler_reg') = Tail(handler_reg)
             /\ ChainGet(handler_reg', key) = ChainGet(Tail(handler_reg), key)
             /\ Head(handler_reg)[key] = NoHandler =>
                    /\ UNCHANGED <<handler_reg, _resource_cache>>
                    /\ SameCache]_vars

\* C4, its case: inside a handler_context, the spec deregistered still
\* resolves, through a parent layer
C4_Witness ==
    /\ last.op = "deregister"
    /\ Len(handler_reg) > 1
    /\ resolve(last.key) # NoHandler

C6_OverlayRestoration ==
    [][\A raised \in BOOLEAN :
          handler_context_exit(raised)
          => \A s \in Specs :
                 ChainGet(handler_reg', s) = ChainGet(Head(stash), s)]_vars

\* C6, its case: a nested context left by an exception, after its body had
\* instances constructed by the overlay's handlers
C6_Witness ==
    /\ last.op = "exit"
    /\ last.exc = "body"
    /\ last.evicted > 0
    /\ Len(handler_reg) > 1

\* C7: when retrieve.handler_context exits, by return or by exception, the
\* keys temp_handlers introduced are unbound in _h_registry and the keys it
\* replaced are bound to the handlers they had.
C7_ModuleContextRestores ==
    [][\A raised \in BOOLEAN :
          retrieve_handler_context_exit(raised)
          => LET f == Head(mod_ctx)
             IN  /\ \A k \in f.remove_list : _h_registry'[k] = NoHandler
                 /\ \A k \in DOMAIN f.replace_list :
                        _h_registry'[k] = f.replace_list[k]]_vars

\* C8: entering handler_context(overlay) makes every spec of the overlay
\* resolve to the overlay's handler and leaves every other spec resolving to
\* what it resolved to; exiting the innermost context puts back the chain that
\* was in effect when it was entered, the enclosing overlay included.
C8_OverlayLookupNesting ==
    [][/\ \A temp_handlers \in Layers :
              handler_context_enter(temp_handlers)
              => \A s \in Specs :
                     ChainGet(handler_reg', s) =
                         IF temp_handlers[s] # NoHandler THEN temp_handlers[s]
                         ELSE ChainGet(handler_reg, s)
       /\ \A raised \in BOOLEAN :
              handler_context_exit(raised)
              => /\ handler_reg' = Head(stash)
                 /\ Len(handler_reg') = Len(stash)]_vars

\* C8, its case: the inner of two contexts exited, and the enclosing overlay
\* still overrides the root registry
C8_Witness ==
    /\ last.op = "exit"
    /\ Len(handler_reg) = 2
    /\ Len(stash) = 1
    /\ \E s \in Specs :
           /\ handler_reg[1][s] # NoHandler
           /\ handler_reg[1][s] # handler_reg[2][s]

\* C9: the exit of a handler_context removes from the cache every entry
\* keyed by the name of a handler of the discarded layer; and the cache never
\* holds an instance constructed through a layer that has been discarded.
C9_ExitEviction ==
    /\ [](\A k \in DOMAIN _handler_cache :
              _handler_cache[k].layer <= Len(handler_reg))
    /\ [][\A raised \in BOOLEAN :
             handler_context_exit(raised)
             => \A k \in DOMAIN _handler_cache' :
                    \A s \in Specs :
                        Head(handler_reg)[s] # NoHandler
                        => k[2] # __name__(Head(handler_reg)[s])]_vars

\* C9, its case: an exit evicted the instances of the overlay's handlers and
\* left another instance cached
C9_Witness ==
    /\ last.op = "exit"
    /\ last.exc = "none"
    /\ last.evicted > 0
    /\ DOMAIN _handler_cache # {}

\* C10: insert_resource with valid kwargs persists the document whether or not
\* its spec resolves, and leaves the registry and the cache as they were;
\* get_spec_handler for a stored resource whose spec does not resolve raises
\* KeyError and leaves the registry and the handler-instance cache as they
\* were; for one whose spec resolves it returns an instance (the constructor
\* not failing).
C10_InsertionIndependent ==
    [][/\ \A spec \in Specs, rid \in RIds :
              insert_resource(spec, rid, TRUE)
              => /\ last'.exc = "none"
                 /\ resource_col'[rid] = spec
                 /\ handler_reg' = handler_reg
                 /\ SameCache
       /\ \A rid \in RIds, ctor_raises \in BOOLEAN :
              (/\ resource_col[rid] # Absent
               /\ resolve(resource_col[rid]) = NoHandler
               /\ get_spec_handler(rid, ctor_raises))
              => /\ last'.exc = "KeyError"
                 /\ handler_reg' = handler_reg
                 /\ SameCache
       /\ \A rid \in RIds :
              (/\ resource_col[rid] # Absent
               /\ resolve(resource_col[rid]) # NoHandler
               /\ get_spec_handler(rid, FALSE))
              => /\ last'.exc = "none"
                 /\ last'.ret \in InstIds(_handler_cache')]_vars

\* C10, its case: the retrieval of a stored resource whose spec is not
\* registered has raised KeyError, with another resource's instance cached
C10_Witness ==
    /\ last.op = "get"
    /\ last.exc = "KeyError"
    /\ DOMAIN _handler_cache # {}
    /\ \E rid \in RIds :
           /\ resource_col[rid] # Absent
           /\ _resource_cache[rid] = resource_col[rid]
           /\ resolve(resource_col[rid]) = NoHandler

\* C11: get_spec_handler for a resource id that has no document in the
\* resource collection raises NotFoundError, whatever else the call is given.
C11_MissingResourceNotFound ==
    [][\A rid \in RIds, ctor_raises \in BOOLEAN :
          (resource_col[rid] = Absent /\ get_spec_handler(rid, ctor_raises))
          => last'.exc = "NotFoundError"]_vars

\* C12: a get_spec_handler(R) call that returns leaves the instance it
\* returned cached under R; a get_spec_handler(R) call that follows a
\* get_spec_handler(R) call that returned, with no call in between, returns
\* the same instance without invoking the constructor (whether or not the
\* constructor would fail) and leaves the cache as it was; and in every state
\* no instance is cached under two keys and every key holds an instance of a
\* class of the key's name.
C12_InstanceReuse ==
    /\ [](\A k1 \in DOMAIN _handler_cache :
              /\ __name__(_handler_cache[k1].ctor) = k1[2]
              /\ \A k2 \in DOMAIN _handler_cache :
                     _handler_cache[k1].id = _handler_cache[k2].id => k1 = k2)
    /\ [][\A rid \in RIds, ctor_raises \in BOOLEAN :
             get_spec_handler(rid, ctor_raises)
             => /\ last'.exc = "none" =>
                       \E k \in DOMAIN _handler_cache' :
                           /\ k[1] = rid
                           /\ _handler_cache'[k].id = last'.ret
                /\ (/\ last.op = "get"
                    /\ last.exc = "none"
                    /\ \E k \in DOMAIN _handler_cache :
                           k[1] = rid /\ _handler_cache[k].id = last.ret)
                   => /\ last'.exc = "none"
                      /\ last'.ret = last.ret
                      /\ nextInst' = nextInst
                      /\ SameCache]_vars

\* C12, its case: with two instances cached, a get_spec_handler call returned
\* the one constructed first, which is a hit of the cache
C12_Witness ==
    /\ last.op = "get"
    /\ last.exc = "none"
    /\ Cardinality(DOMAIN _handler_cache) = 2
    /\ last.ret < nextInst - 1

\* C13: the caches are unbounded: once read, a resource stays in the resource
\* cache, and once constructed (there being no invalidation in these runs) an
\* instance stays in the handler-instance cache, however many distinct
\* resources are retrieved; so no id is read from the store twice, and the
\* constructor is not called for an id that has an instance cached.
C13_CachesUnbounded ==
    /\ [](\A rid \in LruIds :
              /\ reads[rid] <= 1
              /\ reads[rid] = 1 => rid \in LRU_keys(_resource_lru))
    /\ [][\A rid \in LruIds :
             /\ rid \in LRU_keys(_resource_lru)
                => rid \in LRU_keys(_resource_lru')
             /\ rid \in LRU_keys(_handler_lru)
                => /\ rid \in LRU_keys(_handler_lru')
                   /\ built'[rid] = built[rid]]_vars

\* C14: save_ndarray(v) leaves a file holding np.save(v), a resource of spec
\* npy and a datum of that resource; and while the file holds what was saved
\* for v and NpyHandler is registered for the resource's spec, by
\* register_handler or by an enclosing handler_context, retrieve of the datum
\* id returns a value equal to v.
C14_RoundTrip ==
    [][\A v \in Arrays :
          /\ \A rid \in RIds, datum_id \in RIds :
                 save_ndarray(v, rid, datum_id)
                 => /\ files'[rid] = np_save(v)
                    /\ resource_col'[rid] = npy
                    /\ \E i \in 1..Len(datum_col') :
                           /\ datum_col'[i].datum_id = datum_id
                           /\ datum_col'[i].resource = rid
          /\ \A eid \in RIds :
                 (/\ retrieve(eid)
                  /\ \E i \in 1..Len(datum_col) :
                         /\ datum_col[i].datum_id = eid
                         /\ files[datum_col[i].resource] = np_save(v)
                         /\ _h_registry[resource_col[datum_col[i].resource]]
                                = "NpyHandler")
                 => /\ out'.exc = "none"
                    /\ out'.value = v]_vars

\* C14, its case: inside a handler_context that registered the handler (the
\* registry did not hold the spec at entry), a retrieval returned an array of
\* two rows
C14_Witness ==
    /\ last.op = "retrieve"
    /\ out.exc = "none"
    /\ out.value \in Arrays
    /\ Len(out.value) = 2
    /\ mod_ctx # <<>>
    /\ npy \in Head(mod_ctx).remove_list

\* C15: in every state no two documents of the datum collection have one
\* datum_id, and the collection holds no document unless it has the unique
\* index; insert_datum with the datum_id of a persisted datum raises and
\* leaves the collection as it was, and what it raises is the conflict error
\* when its other arguments are ones it accepts (a resource that exists,
\* kwargs that pass the schema); so does bulk_insert_datum, for lists of one
\* length whose first id is persisted.  disconnect and reconfigure are among
\* the steps.
C15_DatumIdUnique ==
    /\ [](/\ \A i, j \in 1..Len(datum_col) :
                 datum_col[i].datum_id = datum_col[j].datum_id => i = j
          /\ Len(datum_col) > 0 => datum_index)
    /\ [][/\ \A rid \in 1..DatumRes, as_doc \in BOOLEAN, datum_id \in DIds,
                datum_kwargs \in DKwargs, valid \in BOOLEAN :
                 (/\ datum_id \in DatumIds(datum_col)
                  /\ insert_datum(rid, as_doc, datum_id, datum_kwargs, valid))
                 => /\ last'.exc # "none"
                    /\ datum_col' = datum_col
                    /\ (resource_col[rid] # Absent /\ valid)
                       => last'.exc = "ConflictError"
          /\ \A rid \in 1..DatumRes, datum_ids \in Lists(DIds),
                datum_kwarg_list \in Lists(DKwargs), ordered \in BOOLEAN :
                 (/\ Len(datum_ids) = Len(datum_kwarg_list)
                  /\ Len(datum_ids) > 0
                  /\ datum_ids[1] \in DatumIds(datum_col)
                  /\ bulk_insert_datum(rid, datum_ids, datum_kwarg_list,
                                       ordered))
                 => /\ last'.exc = "ConflictError"
                    /\ datum_col' = datum_col]_vars

\* C15, its case: with the handle dropped by disconnect or reconfigure and
\* two datums persisted, an insert_datum was refused for its datum_id
C15_Witness ==
    /\ last.op = "insert_datum"
    /\ last.exc = "ConflictError"
    /\ Len(datum_col) = 2

\* a bulk_insert_datum call did what C16 says of lists of one length: N
\* documents more, the i-th with datum_ids[i], datum_kwarg_list[i] and the
\* resource, each the one document of its datum_id
BulkPersisted(rid, datum_ids, datum_kwarg_list) ==
    LET n == Len(datum_ids)
        was == Len(datum_col)
    IN  /\ last'.exc = "none"
        /\ Len(datum_col') = was + n
        /\ SubSeq(datum_col', 1, was) = datum_col
        /\ \A i \in 1..n :
               /\ datum_col'[was + i] =
                      Datum(rid, datum_ids[i], datum_kwarg_list[i])
               /\ \A j \in 1..(was + n) :
                      datum_col'[j].datum_id = datum_ids[i] => j = was + i

\* the ids of a list are pairwise distinct and none is persisted
NewIds(datum_ids) ==
    /\ \A i, j \in 1..Len(datum_ids) : datum_ids[i] = datum_ids[j] => i = j
    /\ \A i \in 1..Len(datum_ids) : datum_ids[i] \notin DatumIds(datum_col)

\* C16 as claimed: bulk_insert_datum with lists of one length N persists N
\* documents, the i-th with datum_ids[i] and datum_kwarg_list[i], each
\* referencing R and each found by its id; with lists of two lengths it
\* raises ValidationError and persists nothing.
C16_BulkInsert ==
    [][\A rid \in 1..DatumRes, datum_ids \in Lists(DIds),
         datum_kwarg_list \in Lists(DKwargs), ordered \in BOOLEAN :
          bulk_insert_datum(rid, datum_ids, datum_kwarg_list, ordered)
          => IF Len(datum_ids) = Len(datum_kwarg_list)
             THEN BulkPersisted(rid, datum_ids, datum_kwarg_list)
             ELSE /\ last'.exc = "ValidationError"
                  /\ datum_col' = datum_col]_vars

\* C16 as amended: the same for lists of one length whose ids are pairwise
\* distinct and not persisted; when an id is repeated or persisted the call
\* raises the conflict error and persists fewer than N documents, none of
\* them under a datum_id the collection held; with lists of two lengths it
\* raises ValidationError and persists nothing.
C16_BulkInsertNewIds ==
    [][\A rid \in 1..DatumRes, datum_ids \in Lists(DIds),
         datum_kwarg_list \in Lists(DKwargs), ordered \in BOOLEAN :
          bulk_insert_datum(rid, datum_ids, datum_kwarg_list, ordered)
          => IF Len(datum_ids) # Len(datum_kwarg_list)
             THEN /\ last'.exc = "ValidationError"
                  /\ datum_col' = datum_col
             ELSE IF NewIds(datum_ids)
             THEN BulkPersisted(rid, datum_ids, datum_kwarg_list)
             ELSE /\ last'.exc = "ConflictError"
                  /\ Len(datum_col') < Len(datum_col) + Len(datum_ids)
                  /\ SubSeq(datum_col', 1, Len(datum_col)) = datum_col]_vars

\* C16, its case: one bulk_insert_datum call persisted two documents
C16_Witness ==
    /\ last.op = "bulk_insert_datum"
    /\ last.exc = "none"
    /\ last.ret = 2
    /\ Len(datum_col) = 2

\* the frames the data holds for a point: all of the point's file for the SPE
\* handler, those of the point's slice for the others
Available(h, n, point_number) ==
    IF h.class = "AreaDetectorSPEHandler" THEN n
    ELSE Len(Slice(Frames(n), point_number * h._fpp,
                   (point_number + 1) * h._fpp))

\* C17: a call of a handler that takes frame_per_point, made when the data
\* holds fewer frames than frame_per_point for the point, raises
\* IntegrityError with the count expected and the count found; and no call
\* returns fewer frames than frame_per_point.
C17_FrameCountBoundary ==
    [][\A point_number \in 0..MaxPoint :
          Handler_frames(point_number)
          => /\ Available(h_inst, disk, point_number) < h_inst._fpp
                => /\ got'.exc = "IntegrityError"
                   /\ got'.expected > got'.found
                   /\ got'.found = disk
             /\ got'.exc = "none" => Len(got'.frames) >= h_inst._fpp]_vars

\* C18: what a handler constructor or a handler call raises during a
\* retrieval reaches the caller as it was raised, after one attempt.  When the
\* constructor raises in get_spec_handler, the handler-instance cache and the
\* registry are as they were, the key is not cached, and a retrieval whose
\* key is not cached constructs.
C18_FailurePropagation ==
    [][/\ \A rid \in 1..DataRes :
             fs_get_spec_handler(rid)
             => LET resource == LRUGet(_resource_cache, rid)
                    key == <<rid, __name__(ChainGet(handler_reg, resource))>>
                    stored == /\ resource # None
                              /\ ChainContains(handler_reg, resource)
                              /\ key \notin DOMAIN _handler_cache
                IN  /\ handler_reg' = handler_reg
                    /\ stored /\ ctor_fails(rid)
                       => /\ last'.exc = "handler"
                          /\ _handler_cache' = _handler_cache
                          /\ key \notin DOMAIN _handler_cache'
                          /\ nextInst' = nextInst
                    /\ stored /\ ~ctor_fails(rid)
                       => /\ last'.exc = "none"
                          /\ key \in DOMAIN _handler_cache'
                          /\ nextInst' = nextInst + 1
       /\ \A eid \in 1..DataRes :
             retrieve(eid)
             => \A i \in 1..Len(datum_col) :
                  datum_col[i].datum_id = eid
                  => LET file == files[datum_col[i].resource]
                         handler == _h_registry[resource_col[datum_col[i].resource]]
                         init == Handler_init(handler, file)
                         called == Handler_call(handler, file,
                                                datum_col[i].datum_kwargs)
                     IN  /\ _h_registry' = _h_registry
                         /\ handler # NoHandler /\ init # "none"
                            => /\ out'.exc = init
                               /\ out'.ctor_calls = 1
                               /\ out'.calls = 0
                         /\ handler # NoHandler /\ init = "none"
                            => /\ out'.exc = called.exc
                               /\ out'.ctor_calls = 1
                               /\ out'.calls = 1]_vars

\* both retrievals have failed on the constructor: retrieve with IOError
\* after one construction and no call, get_spec_handler with what the
\* constructor raised and nothing cached
C18_Witness ==
    /\ last.op = "get"
    /\ last.exc = "handler"
    /\ _handler_cache = << >>
    /\ out.exc = "IOError"
    /\ out.ctor_calls = 1
    /\ out.calls = 0

\* C19: over a dataset of shape [E, X, Y], the call of an open
\* HDFMapsSpectrumHandler with x < X and y < Y returns the E values
\* dset[:, x, y], and the call of an open HDFMapsEnergyHandler with
\* e_index < E returns the plane dset[e_index, :, :] of X * Y elements.
C19_MapsReaders ==
    [][/\ \A x \in 0..MaxX, y \in 0..MaxY :
             /\ h_inst.class = "HDFMapsSpectrumHandler"
             /\ h_inst._file
             /\ Maps_call(<<x, y>>)
             /\ x < Shape(dset)[2]
             /\ y < Shape(dset)[3]
             => /\ got'.exc = "none"
                /\ got'.shape = <<Shape(dset)[1]>>
                /\ Len(got'.frames) = Shape(dset)[1]
                /\ \A e \in 1..Shape(dset)[1] :
                      got'.frames[e] = dset[e][x + 1][y + 1]
       /\ \A e_index \in 0..MaxE :
             /\ h_inst.class = "HDFMapsEnergyHandler"
             /\ h_inst._file
             /\ Maps_call(<<e_index>>)
             /\ e_index < Shape(dset)[1]
             => /\ got'.exc = "none"
                /\ got'.shape = <<Shape(dset)[2], Shape(dset)[3]>>
                /\ Len(got'.frames) = Shape(dset)[2] * Shape(dset)[3]
                /\ \A x \in 1..Shape(dset)[2], y \in 1..Shape(dset)[3] :
                      got'.frames[(x - 1) * Shape(dset)[3] + y]
                          = dset[e_index + 1][x][y]]_vars

\* a spectrum of two energies has been read off a dataset whose raster is
\* not square
C19_Witness ==
    /\ h_inst.class = "HDFMapsSpectrumHandler"
    /\ h_inst._file
    /\ dset # <<>>
    /\ Shape(dset) = <<2, 1, 2>>
    /\ got.exc = "none"
    /\ got.shape = <<2>>
    /\ got.frames = <<dset[1][1][2], dset[2][1][2]>>
    /\ dset[1][1][2] # dset[1][1][1]

\* the maps below maps[0] are, after the step, the last maps of the chain
\* and hold what they held
ParentsKept ==
    LET n == Len(handler_reg) - 1
    IN  /\ Len(handler_reg') >= n
        /\ SubSeq(handler_reg', Len(handler_reg') - n + 1, Len(handler_reg'))
               = Tail(handler_reg)

\* C20: while a handler_context is active no call changes a map below
\* maps[0]: register_handler and deregister_handler write maps[0] only; and
\* the exit leaves the chain as it was at entry, so that what was registered
\* in the body is gone.
C20_WritesToChildOnly ==
    [][/\ stash # <<>> => ParentsKept
       /\ \A key \in Specs, handler \in NestHandlers, overwrite \in BOOLEAN :
             stash # <<>> /\ register_handler(key, handler, overwrite)
             => Tail(handler_reg') = Head(stash)
       /\ \A key \in Specs :
             stash # <<>> /\ deregister_handler(key)
             => Tail(handler_reg') = Head(stash)
       /\ \A raised \in BOOLEAN :
             handler_context_exit(raised) => handler_reg' = Head(stash)]_vars

\* inside a context a handler has been registered over another that a
\* parent map binds, and the parents are as they were at entry
C20_Witness ==
    /\ stash # <<>>
    /\ last.op = "register"
    /\ last.exc = "none"
    /\ Head(handler_reg)[last.key] # NoHandler
    /\ ChainGet(Head(stash), last.key) # NoHandler
    /\ ChainGet(Head(stash), last.key) # Head(handler_reg)[last.key]
    /\ Tail(handler_reg) = Head(stash)

\* the names of the handlers bound in some map of the chain
BoundNames(maps) ==
    {__name__(maps[i][s]) :
         <<i, s>> \in {q \in (1..Len(maps)) \X Specs : maps[q[1]][q[2]] # NoHandler}}

\* C21: in every state reached by register_handler, deregister_handler,
\* nested handler_context entries and exits and get_spec_handler calls, the
\* name of every key of the handler-instance cache is the __name__ of a
\* handler bound in some map of the registry chain.
C21_CacheRegistryConsistent ==
    \A k \in DOMAIN _handler_cache : k[2] \in BoundNames(handler_reg)

\* the exit of a context has evicted the instances of its handlers and has
\* left one of a handler a parent map binds
C21_Witness ==
    /\ last.op = "exit"
    /\ last.evicted > 0
    /\ _handler_cache # << >>
    /\ \A k \in DOMAIN _handler_cache : k[2] \in BoundNames(handler_reg)

\* C22: when get_spec_handler runs beside deregister_handler or the exit of
\* handler_context, once both have returned the handler-instance cache
\* holds no key of the name of a handler that was removed.
C22_ConcurrentEviction ==
    (conc.g = "done" /\ conc.d = "done")
    => \A k \in DOMAIN _handler_cache : k[2] \notin conc.removed

\* C23: the instance a get_spec_handler call returns was constructed by the
\* constructor the registry resolves for the spec of the resource at the
\* time of the call, also when two constructors bear one __name__.
C23_ResolvedConstructor ==
    [][\A rid \in 1..MaxRes, ctor_raises \in BOOLEAN :
          get_spec_handler(rid, ctor_raises) /\ last'.exc = "none"
          => LET resource == LRUGet(_resource_cache, rid)
                 handler == ChainGet(handler_reg, resource)
             IN  _handler_cache'[<<rid, __name__(handler)>>].ctor = handler]_vars

\* C24: a get_spec_handler call for an id the store has no document of adds
\* nothing to the resource cache, and a call for an id the store has a
\* document of reads and resolves it.
C24_NoNegativeCaching ==
    [][\A rid \in 1..MaxRes, ctor_raises \in BOOLEAN :
          get_spec_handler(rid, ctor_raises)
          => /\ resource_col[rid] = Absent => _resource_cache'[rid] = Miss
             /\ resource_col[rid] # Absent
                => /\ _resource_cache'[rid] = resource_col[rid]
                   /\ last'.exc # "TypeError"]_vars

\* C25: disconnect and reconfigure leave the handler registry, the resource
\* cache, the handler-instance cache and the datum cache as they were, and
\* a retrieval of a resource whose document and instance are cached returns
\* that instance, whatever the store connected to holds.
C25_ReconfigureKeepsCaches ==
    [][/\ (disconnect \/ \E cfg \in Configs : reconfigure(cfg))
          => /\ handler_reg' = handler_reg
             /\ stash' = stash
             /\ _resource_cache' = _resource_cache
             /\ _handler_cache' = _handler_cache
             /\ _datum_cache' = _datum_cache
       /\ \A rid \in 1..ReconfRes, ctor_raises \in BOOLEAN :
             /\ get_spec_handler(rid, ctor_raises)
             /\ _resource_cache[rid] \in Specs
             /\ <<rid, __name__(ChainGet(handler_reg, _resource_cache[rid]))>>
                    \in DOMAIN _handler_cache
             => /\ last'.exc = "none"
                /\ last'.ret =
                      _handler_cache[<<rid, __name__(ChainGet(handler_reg,
                                          _resource_cache[rid]))>>].id]_vars

\* after a reconfigure to a store that has no document of the resource, a
\* retrieval has returned the instance cached from the store before
C25_Witness ==
    /\ config = "c2"
    /\ resource_col[1] = Absent
    /\ stores["c1"].resource_col[1] = "s1"
    /\ _datum_cache # {}
    /\ last.op = "get"
    /\ last.exc = "none"
    /\ last.ret = 1

\* the instances a handler-instance cache holds
Instances(cache) == {cache[k].id : k \in DOMAIN cache}

\* C26: close() has been called on every instance a step removes from the
\* handler-instance cache, and no get_spec_handler call closes an instance.
C26_EvictionCloses ==
    [][/\ (Instances(_handler_cache) \ Instances(_handler_cache')) \subseteq closed'
       /\ \A rid \in 1..LifeRes, ctor_raises \in BOOLEAN :
             get_spec_handler(rid, ctor_raises) => closed' = closed]_vars

\* the call of an HDF5 handler: what it read through and whether it failed
ReadsOpenFile ==
    /\ got'.exc = "none" => h_inst._file /\ got'.read = h_inst.opened
    /\ ~h_inst._file => got'.exc # "none"

\* C27: open() of an HDF5DatasetSliceHandler or a MAPS handler whose file is
\* open changes nothing; a call that returns data has read through a handle
\* of the file that is open, never one taken before the last close(); a call
\* of a closed handler raises.
C27_OpenCloseLifecycle ==
    [][/\ (Slice_open \/ Maps_open) /\ h_inst._file => h_inst' = h_inst
       /\ \A point_number \in 0..MaxPoint :
             h_inst.class \in SliceHandlers /\ Handler_frames(point_number)
             => ReadsOpenFile
       /\ \A x \in 0..1, y \in 0..1 :
             h_inst.class = "HDFMapsSpectrumHandler" /\ Maps_call(<<x, y>>)
             => ReadsOpenFile
       /\ \A e_index \in 0..1 :
             h_inst.class = "HDFMapsEnergyHandler" /\ Maps_call(<<e_index>>)
             => ReadsOpenFile]_vars

\* a slice handler that was closed and opened again has returned frames read
\* through the dataset of its second file
C27_Witness ==
    /\ h_inst.class = "HDF5DatasetSliceHandler"
    /\ h_inst._file
    /\ h_inst.opened = 2
    /\ h_inst._dataset = 2
    /\ got.exc = "none"
    /\ got.read = 2
    /\ Len(got.frames) = 2

\* C28: a call of an AreaDetectorTiffHandler for a point whose frames lie
\* within the image sequence it knows does not list the files again; one
\* whose frames lie past its end lists them once and then returns the frames
\* when the files hold them and raises IntegrityError when they do not; the
\* handler stays as it was but for the sequence, so a later call for the
\* point returns the frames once the files exist.
C28_TiffRefreshOnDemand ==
    [][\A point_number \in 0..MaxPoint :
          h_inst.class = "AreaDetectorTiffHandler" /\ Handler_frames(point_number)
          => LET start == point_number * h_inst._fpp
                 stop == (point_number + 1) * h_inst._fpp
                 wanted == [k \in 1..h_inst._fpp |-> start + k]
             IN  /\ stop <= h_inst._len
                    => /\ got'.rescans = 0
                       /\ h_inst' = h_inst
                       /\ got'.exc = "none"
                       /\ got'.frames = wanted
                 /\ stop > h_inst._len
                    => /\ got'.rescans = 1
                       /\ h_inst' = [h_inst EXCEPT !._len = disk]
                       /\ stop <= disk
                          => got'.exc = "none" /\ got'.frames = wanted
                       /\ stop > disk => got'.exc = "IntegrityError"]_vars

\* a handler made when no file existed has listed the files again and
\* returned the two frames of point 1
C28_Witness ==
    /\ h_inst.class = "AreaDetectorTiffHandler"
    /\ h_inst._fpp = 2
    /\ h_inst._len = 4
    /\ got.exc = "none"
    /\ got.rescans = 1
    /\ got.frames = <<3, 4>>

====
